---- MODULE Spec2Model ----
(***************************************************************************)
(* Certificate lifecycle of the proxy (services/letsencrypt/http01.rs):    *)
(* HttpLetsencrypt::start and the HttpLetsencryptService methods it calls, *)
(* run against a nondeterministic ACME authority and a file system whose   *)
(* writes may fail.  A deployment is a sequence of runs of start (one per  *)
(* process start) over the same ./data directory.                          *)
(***************************************************************************)
EXTENDS Integers, Sequences, FiniteSets, TLC

\* ---------------------------------------------------------------- bounds
HostNames == {"a", "b"}
MaxHosts == 2
MaxRuns == 2
MaxCertWaits == 2

\* ------------------------------------------------------------- constants
max_retries == 10

AuthorizationStatus ==
    {"Pending", "Valid", "Invalid", "Expired", "Deactivated", "Revoked"}
OrderStatus == {"Pending", "Ready", "Processing", "Valid", "Invalid"}

VARIABLES
    hosts,            \* HttpLetsencrypt.hosts, the configured host list
    pc,               \* position of the run inside start()
    run,              \* number of the current run (process start)
    dirs,             \* the four data directories exist
    credFile,         \* ./data/account/credentials.json
    challengeFiles,   \* ./data/challenges/<host>/meta.csv
    orderRef,         \* ./data/orders/meta.txt
    certPem,          \* ./data/certificates/<host>/cert.pem
    keyPem,           \* ./data/certificates/<host>/key.pem
    registered,       \* authority: accounts registered so far
    orders,           \* authority: orders created so far
    excluded_hosts,   \* local of start()
    account,          \* account of the session, 0 = none
    identifiers,      \* identifiers of the order submitted by this run
    order,            \* the order handle: 0 = none, else the order number
    status,           \* order.state().status
    authorizations,   \* local of create_challenges_from_order
    authzIdx,         \* position of its for loop
    cert_store,       \* svc.cert_store.orders
    pending,          \* cert_store keys the write loop has not visited yet
    cur,              \* key whose record was written and awaits its ready signal
    current_retry,
    retry_delay,
    sleeps,           \* delays slept by the readiness loop, in order
    kp,               \* generated key pair
    cert_chain,       \* downloaded chain
    certIdx,          \* position of the certificate write loop
    certWaits,        \* "not ready yet" answers of the download loop
    log,              \* authority calls and file writes of this run, in order
    atStart,          \* the files as this run found them
    challenge_store,  \* HttpLB.challenge_store: host -> (token, proof)
    request,          \* the last plaintext request the proxy received
    response          \* what request_filter answered to it

vars == <<hosts, pc, run, dirs, credFile, challengeFiles, orderRef, certPem,
          keyPem, registered, orders, excluded_hosts, account, identifiers,
          order, status, authorizations, authzIdx, cert_store, pending, cur,
          current_retry, retry_delay, sleeps, kp, cert_chain, certIdx,
          certWaits, log, atStart, challenge_store, request, response>>

proxy == <<challenge_store, request, response>>

Files ==
    [credFile |-> credFile, challengeFiles |-> challengeFiles,
     orderRef |-> orderRef, certPem |-> certPem, keyPem |-> keyPem]

\* ------------------------------------------------------------- helpers
Range(s) == {s[i] : i \in 1..Len(s)}

HostLists == UNION {[1..n -> HostNames] : n \in 0..MaxHosts}

EmptyMap == [h \in {} |-> 0]

\* a file that does not exist, and one that was created but not written
NoFile == <<"none">>
EmptyFile == <<"empty">>
\* the serialized AccountCredentials of account n
Credentials(n) == <<"credentials", n>>

Terminal == {"all_excluded", "no_order", "no_orders", "max_retries",
             "finalize_failed", "download_error", "done", "panic"}

\* excluded_hosts.contains(host)
Contains(list, h) == \E i \in 1..Len(list) : list[i] = h

\* variant: the challenge files are never looked at
ExcludedHostsNone(hs, files) == <<>>

\* start(): the hosts whose challenges/<host>/meta.csv can be opened
ExcludedHosts(hs, files) ==
    SelectSeq(hs, LAMBDA h : h \in DOMAIN files)

\* variant: the early return of line 276 is missing
AllExcludedNever(excluded, hs) == FALSE

\* start(): excluded_hosts.len() == svc.hosts.len()
AllExcluded(excluded, hs) == Len(excluded) = Len(hs)

\* variant: the exclusion test of line 148 is missing
IdentifiersAll(hs, excluded) == hs

\* create_order: the hosts not contained in excluded_hosts, in order
Identifiers(hs, excluded) ==
    SelectSeq(hs, LAMBDA h : ~Contains(excluded, h))

\* what the authority hands out for host h of order n
ChallengeToken(n, h) == <<"token", n, h>>
ChallengeUrl(n, h) == <<"chal", n, h>>
OrderUrl(n) == <<"order", n>>
CertChain(n) == <<"chain", n>>
\* order.key_authorization(challenge): token bound to the account key
KeyAuthorization(token, acct) == <<token, acct>>
\* KeyPair::generate()
GenerateKeyPair(r) == <<"key", r>>

\* before the first request
NoRequest == [host |-> "", path |-> <<>>, query |-> "none"]
NoResponse == [result |-> "none"]

Init ==
    /\ hosts \in HostLists
    /\ pc = "start"
    /\ run = 1
    /\ dirs = FALSE
    /\ credFile = NoFile
    /\ challengeFiles = EmptyMap
    /\ orderRef = NoFile
    /\ certPem = EmptyMap
    /\ keyPem = EmptyMap
    /\ registered = 0
    /\ orders = 0
    /\ excluded_hosts = <<>>
    /\ account = 0
    /\ identifiers = <<>>
    /\ order = 0
    /\ status = "none"
    /\ authorizations = <<>>
    /\ authzIdx = 0
    /\ cert_store = EmptyMap
    /\ pending = {}
    /\ cur = "none"
    /\ current_retry = 0
    /\ retry_delay = 1
    /\ sleeps = <<>>
    /\ kp = <<"none">>
    /\ cert_chain = <<"none">>
    /\ certIdx = 0
    /\ certWaits = 0
    /\ log = <<>>
    /\ atStart = Files
    /\ challenge_store = EmptyMap
    /\ request = NoRequest
    /\ response = NoResponse

Panic ==
    pc' = "panic"

\* start(), lines 254-279: create the folders, collect the hosts that
\* already have a challenge file, stop if that is all of them
StartRun ==
    /\ pc = "start"
    /\ \E ok \in BOOLEAN :
        IF ~ok
        THEN /\ Panic
             /\ UNCHANGED <<dirs, excluded_hosts>>
        ELSE /\ dirs' = TRUE
             /\ excluded_hosts' = ExcludedHosts(hosts, challengeFiles)
             /\ pc' = IF AllExcluded(excluded_hosts', hosts)
                      THEN "all_excluded" ELSE "create_account"
    /\ UNCHANGED <<hosts, run, credFile, challengeFiles, orderRef, certPem,
                   keyPem, registered, orders, account, identifiers, order,
                   status, authorizations, authzIdx, cert_store, pending, cur,
                   current_retry, retry_delay, sleeps, kp, cert_chain,
                   certIdx, certWaits, log, atStart, proxy>>

\* variant: the credential file is never found
HasCredentialsNever(file) == FALSE

\* create_account, line 96: the credential file can be opened
HasCredentials(file) == file # NoFile

\* create_account, lines 89-138 (called by create_order, line 142, which
\* unwraps its result)
create_account ==
    /\ pc = "create_account"
    /\ IF HasCredentials(credFile)
       THEN IF credFile = EmptyFile
            THEN \* serde_json::from_str(..).unwrap()
                 /\ Panic
                 /\ UNCHANGED <<account, log, registered, credFile>>
            ELSE \* Account::from_credentials(..).await.unwrap()
                 /\ log' = Append(log, <<"fetch_account", credFile[2]>>)
                 /\ \E ok \in BOOLEAN :
                      IF ok THEN /\ account' = credFile[2]
                                 /\ pc' = "create_order"
                            ELSE /\ Panic
                                 /\ UNCHANGED account
                 /\ UNCHANGED <<registered, credFile>>
       ELSE \* Account::create(&new_account, ..)
            /\ log' = Append(log, <<"new_account">>)
            /\ \E accepted \in BOOLEAN :
                 IF ~accepted
                 THEN \* Err(()) unwrapped by create_order
                      /\ Panic
                      /\ UNCHANGED <<account, registered, credFile>>
                 ELSE /\ registered' = registered + 1
                      /\ \E w \in {"create_fails", "write_fails", "ok"} :
                           CASE w = "create_fails" ->
                                  /\ Panic
                                  /\ UNCHANGED <<account, credFile>>
                             [] w = "write_fails" ->
                                  /\ Panic
                                  /\ credFile' = EmptyFile
                                  /\ UNCHANGED account
                             [] OTHER ->
                                  /\ credFile' = Credentials(registered')
                                  /\ account' = registered'
                                  /\ pc' = "create_order"
    /\ UNCHANGED <<hosts, run, dirs, challengeFiles, orderRef, certPem, keyPem,
                   orders, excluded_hosts, identifiers, order, status,
                   authorizations, authzIdx, cert_store, pending, cur,
                   current_retry, retry_delay, sleeps, kp, cert_chain,
                   certIdx, certWaits, atStart, proxy>>

\* variant: the result of create_challenges_from_order is not tested
AfterOrderErrorIgnored == "write_order_ref"

\* start(), lines 286-289: order.is_err() ends the run, "No order to check"
AfterOrderError == "no_order"

\* create_order, lines 143-171, and the Err branch of its caller
\* (create_challenges_from_order 180-183, start 286-289)
create_order ==
    /\ pc = "create_order"
    /\ identifiers' = Identifiers(hosts, excluded_hosts)
    /\ IF identifiers' = <<>>
       THEN /\ pc' = AfterOrderError
            /\ UNCHANGED <<orders, order, status, log>>
       ELSE /\ log' = Append(log, <<"new_order", identifiers'>>)
            /\ \E accepted \in BOOLEAN :
                 IF ~accepted
                 THEN /\ Panic
                      /\ UNCHANGED <<orders, order, status>>
                 ELSE /\ orders' = orders + 1
                      /\ order' = orders'
                      /\ status' \in OrderStatus
                      /\ pc' = "authorizations"
    /\ UNCHANGED <<hosts, run, dirs, credFile, challengeFiles, orderRef,
                   certPem, keyPem, registered, excluded_hosts, account,
                   authorizations, authzIdx, cert_store, pending, cur,
                   current_retry, retry_delay, sleeps, kp, cert_chain,
                   certIdx, certWaits, atStart, proxy>>

\* the authorization lists the authority may return for an order: one
\* authorization per distinct identifier, in any order, with any status,
\* offering an HTTP-01 challenge or not
AuthorizationLists(ids) ==
    {s \in [1..Cardinality(ids) ->
              [identifier : ids, status : AuthorizationStatus,
               http01 : BOOLEAN]] :
        \A i, j \in 1..Cardinality(ids) :
            s[i].identifier = s[j].identifier => i = j}

\* create_challenges_from_order, line 186
FetchAuthorizations ==
    /\ pc = "authorizations"
    /\ log' = Append(log, <<"authorizations", order>>)
    /\ \E ok \in BOOLEAN :
         IF ~ok
         THEN /\ Panic
              /\ UNCHANGED <<authorizations, authzIdx>>
         ELSE /\ authorizations' \in AuthorizationLists(Range(identifiers))
              /\ authzIdx' = 1
              /\ pc' = "derive"
    /\ UNCHANGED <<hosts, run, dirs, credFile, challengeFiles, orderRef,
                   certPem, keyPem, registered, orders, excluded_hosts,
                   account, identifiers, order, status, cert_store, pending,
                   cur, current_retry, retry_delay, sleeps, kp, cert_chain,
                   certIdx, certWaits, atStart, proxy>>

\* variant: the conventional flow, Pending is processed and Valid skipped
AuthzActionConventional(st) ==
    CASE st = "Pending" -> "record"
      [] st = "Valid" -> "skip"
      [] OTHER -> "abort"

\* variant: an unexpected status is skipped like Pending
AuthzActionTolerant(st) ==
    CASE st = "Valid" -> "record"
      [] OTHER -> "skip"

\* the match on authz.status, lines 189-193
AuthzAction(st) ==
    CASE st = "Pending" -> "skip"
      [] st = "Valid" -> "record"
      [] OTHER -> "abort"

\* the entry add_order stores, lines 209-214: (token, url, key_auth)
StoreEntry(n, h, acct) ==
    <<ChallengeToken(n, h), ChallengeUrl(n, h),
      KeyAuthorization(ChallengeToken(n, h), acct)>>

\* one iteration of the for loop of create_challenges_from_order, 188-215
DeriveChallenge ==
    /\ pc = "derive"
    /\ authzIdx <= Len(authorizations)
    /\ LET authz == authorizations[authzIdx]
           act == AuthzAction(authz.status)
       IN CASE act = "skip" ->
                 /\ authzIdx' = authzIdx + 1
                 /\ UNCHANGED <<pc, cert_store, authorizations>>
            [] act = "abort" ->
                 \* return Err(()), then start logs "No order to check"
                 /\ pc' = AfterOrderError
                 /\ authorizations' = <<>>
                 /\ UNCHANGED <<authzIdx, cert_store>>
            [] OTHER ->
                 IF ~authz.http01
                 THEN \* .ok_or(..).unwrap()
                      /\ Panic
                      /\ UNCHANGED <<authzIdx, cert_store, authorizations>>
                 ELSE /\ cert_store' =
                            (authz.identifier :>
                               StoreEntry(order, authz.identifier, account))
                            @@ cert_store
                      /\ authzIdx' = authzIdx + 1
                      /\ UNCHANGED <<pc, authorizations>>
    /\ UNCHANGED <<hosts, run, dirs, credFile, challengeFiles, orderRef,
                   certPem, keyPem, registered, orders, excluded_hosts,
                   account, identifiers, order, status, pending, cur,
                   current_retry, retry_delay, sleeps, kp, cert_chain,
                   certIdx, certWaits, log, atStart, proxy>>

\* create_challenges_from_order, line 217: Ok(order_result)
DeriveReturn ==
    /\ pc = "derive"
    /\ authzIdx > Len(authorizations)
    /\ pc' = "write_order_ref"
    /\ authorizations' = <<>>
    /\ UNCHANGED <<hosts, run, dirs, credFile, challengeFiles, orderRef,
                   certPem, keyPem, registered, orders, excluded_hosts,
                   account, identifiers, order, status, authzIdx, cert_store,
                   pending, cur, current_retry, retry_delay, sleeps, kp,
                   cert_chain, certIdx, certWaits, log, atStart, proxy>>

\* variant: the record keeps the order of the store entry, token first
ChallengeRecordTokenFirst(entry) == entry

\* the line written to meta.csv, line 310: url;key_auth;token
ChallengeRecord(entry) == <<entry[2], entry[3], entry[1]>>

\* variant: the empty test of line 299 is missing
AfterOrderRefUnchecked(store) == "write_challenge"

\* start(), lines 299-302: svc.cert_store.get_orders().is_empty()
AfterOrderRef(store) ==
    IF DOMAIN store = {} THEN "no_orders" ELSE "write_challenge"

\* start(), lines 293-302: persist the order reference, then stop if the
\* store holds no challenge
WriteOrderRef ==
    /\ pc = "write_order_ref"
    /\ \E w \in {"create_fails", "write_fails", "ok"} :
         CASE w = "create_fails" ->
                /\ Panic
                /\ UNCHANGED <<orderRef, log, pending>>
           [] w = "write_fails" ->
                /\ Panic
                /\ orderRef' = EmptyFile
                /\ log' = Append(log, <<"write_order_ref">>)
                /\ UNCHANGED pending
           [] OTHER ->
                /\ orderRef' = OrderUrl(order)
                /\ log' = Append(log, <<"write_order_ref">>)
                /\ pc' = AfterOrderRef(cert_store)
                /\ pending' = DOMAIN cert_store
    /\ UNCHANGED <<hosts, run, dirs, credFile, challengeFiles, certPem, keyPem,
                   registered, orders, excluded_hosts, account, identifiers,
                   order, status, authorizations, authzIdx, cert_store, cur,
                   current_retry, retry_delay, sleeps, kp, cert_chain,
                   certIdx, certWaits, atStart, proxy>>

\* variant: the ready signal of line 316 is missing
AfterWriteNoSignal(rest) == IF rest = {} THEN "poll" ELSE "write_challenge"

\* variant: the write loop does not go on to the readiness loop
AfterReadyStuck(rest) == "write_challenge"

\* start(), line 316: each write is followed by the ready signal of its entry
AfterWrite(rest) == "set_ready"

\* start(), lines 305 and 319: the next entry or, after the last one, the
\* readiness loop
AfterReady(rest) == IF rest = {} THEN "poll" ELSE "write_challenge"

\* start(), lines 305-313: the next entry of the store, in the map's
\* iteration order, is written to challenges/<key>/meta.csv
WriteChallenge ==
    /\ pc = "write_challenge"
    /\ \E key \in pending :
       \E w \in {"create_fails", "write_fails", "ok"} :
         CASE w = "create_fails" ->
                /\ Panic
                /\ UNCHANGED <<challengeFiles, log, pending, cur>>
           [] w = "write_fails" ->
                /\ Panic
                /\ challengeFiles' = (key :> EmptyFile) @@ challengeFiles
                /\ log' = Append(log, <<"write_challenge", key>>)
                /\ UNCHANGED <<pending, cur>>
           [] OTHER ->
                /\ challengeFiles' =
                      (key :> ChallengeRecord(cert_store[key])) @@ challengeFiles
                /\ log' = Append(log, <<"write_challenge", key>>)
                /\ pending' = pending \ {key}
                /\ cur' = key
                /\ pc' = AfterWrite(pending')
    /\ UNCHANGED <<hosts, run, dirs, credFile, orderRef, certPem, keyPem,
                   registered, orders, excluded_hosts, account, identifiers,
                   order, status, authorizations, authzIdx, cert_store,
                   current_retry, retry_delay, sleeps, kp, cert_chain,
                   certIdx, certWaits, atStart, proxy>>

\* start(), lines 315-317: order.set_challenge_ready(url).await.unwrap(),
\* then the next entry or, after the last one, the readiness loop
SetChallengeReady ==
    /\ pc = "set_ready"
    /\ log' = Append(log, <<"ready", cur, cert_store[cur][2]>>)
    /\ \E ok \in BOOLEAN :
         IF ~ok THEN Panic
         ELSE pc' = AfterReady(pending)
    /\ UNCHANGED <<hosts, run, dirs, credFile, challengeFiles, orderRef,
                   certPem, keyPem, registered, orders, excluded_hosts,
                   account, identifiers, order, status, authorizations,
                   authzIdx, cert_store, pending, cur, current_retry,
                   retry_delay, sleeps, kp, cert_chain, certIdx, certWaits,
                   atStart, proxy>>

\* variant: a linear backoff
NextDelayLinear(d) == d + 1

\* variant: an order that is already Valid counts as ready
IsReadyOrValid(st) == st \in {"Ready", "Valid"}

\* retry_delay *= 2, line 337
NextDelay(d) == d * 2

\* the loop guard of line 323
IsReady(st) == st = "Ready"

\* variant: the order is finalized when the retries are used up
PollOutcomeFinalizeAnyway(st, retry) ==
    IF IsReady(st) \/ retry >= max_retries THEN "finalize" ELSE "refresh"

\* start(), lines 323-327: leave the loop when the order is Ready, give up
\* at max_retries, refresh otherwise
PollOutcome(st, retry) ==
    IF IsReady(st) THEN "finalize"
    ELSE IF retry >= max_retries THEN "max_retries"
    ELSE "refresh"

\* start(), lines 319-338: one evaluation of the while loop
PollReady ==
    /\ pc = "poll"
    /\ IF PollOutcome(status, current_retry) # "refresh"
       THEN /\ pc' = PollOutcome(status, current_retry)
            /\ UNCHANGED <<status, current_retry, retry_delay, sleeps, log>>
       ELSE /\ sleeps' = Append(sleeps, retry_delay)
            /\ log' = Append(log, <<"refresh", order>>)
            /\ \E ok \in BOOLEAN :
                 IF ~ok
                 THEN /\ Panic
                      /\ UNCHANGED <<status, current_retry, retry_delay>>
                 ELSE /\ status' \in OrderStatus
                      /\ current_retry' = current_retry + 1
                      /\ retry_delay' = NextDelay(retry_delay)
                      /\ UNCHANGED pc
    /\ UNCHANGED <<hosts, run, dirs, credFile, challengeFiles, orderRef,
                   certPem, keyPem, registered, orders, excluded_hosts,
                   account, identifiers, order, authorizations, authzIdx,
                   cert_store, pending, cur, kp, cert_chain, certIdx,
                   certWaits, atStart, proxy>>

\* variant: the filter of line 343 is missing
NonExcludedHostsAll(hs, excluded) == hs

\* start(), lines 340-345
NonExcludedHosts(hs, excluded) ==
    SelectSeq(hs, LAMBDA h : ~Contains(excluded, h))

\* variant: the finalize status is not checked
AfterFinalizeUnchecked(ok) == "download"

\* start(), lines 355-359: return unless finalize succeeded
AfterFinalize(ok) == IF ok THEN "download" ELSE "finalize_failed"

\* start(), lines 347-359: key pair, CSR, order.finalize(csr)
Finalize ==
    /\ pc = "finalize"
    /\ kp' = GenerateKeyPair(run)
    /\ \E ok \in BOOLEAN :
         /\ log' = Append(log, <<"finalize",
                                 NonExcludedHosts(hosts, excluded_hosts), ok>>)
         /\ pc' = AfterFinalize(ok)
    /\ UNCHANGED <<hosts, run, dirs, credFile, challengeFiles, orderRef,
                   certPem, keyPem, registered, orders, excluded_hosts,
                   account, identifiers, order, status, authorizations,
                   authzIdx, cert_store, pending, cur, current_retry,
                   retry_delay, sleeps, cert_chain, certIdx, certWaits,
                   atStart, proxy>>

\* start(), lines 362-377: the call of one iteration of the download loop.
\* The loop has no bound: certWaits and the log record the first
\* MaxCertWaits "not ready" answers only, so that a wait without end is a
\* cycle between the call and the sleep.
DownloadCert ==
    /\ pc = "download"
    /\ \E answer \in {"cert", "not_ready", "error"} :
         CASE answer = "cert" ->
                /\ log' = Append(log, <<"certificate", order, answer>>)
                /\ cert_chain' = CertChain(order)
                /\ certIdx' = 1
                /\ pc' = "write_certs"
                /\ UNCHANGED certWaits
           [] answer = "not_ready" ->
                /\ IF certWaits < MaxCertWaits
                   THEN /\ certWaits' = certWaits + 1
                        /\ log' = Append(log, <<"certificate", order, answer>>)
                   ELSE UNCHANGED <<certWaits, log>>
                /\ pc' = "cert_sleep"
                /\ UNCHANGED <<cert_chain, certIdx>>
           [] OTHER ->
                /\ log' = Append(log, <<"certificate", order, answer>>)
                /\ pc' = "download_error"
                /\ UNCHANGED <<cert_chain, certIdx, certWaits>>
    /\ UNCHANGED <<hosts, run, dirs, credFile, challengeFiles, orderRef,
                   certPem, keyPem, registered, orders, excluded_hosts,
                   account, identifiers, order, status, authorizations,
                   authzIdx, cert_store, pending, cur, current_retry,
                   retry_delay, sleeps, kp, atStart, proxy>>

\* start(), lines 368-371: sleep(Duration::from_secs(5)), then the next call
SleepCert ==
    /\ pc = "cert_sleep"
    /\ pc' = "download"
    /\ UNCHANGED <<hosts, run, dirs, credFile, challengeFiles, orderRef,
                   certPem, keyPem, registered, orders, excluded_hosts,
                   account, identifiers, order, status, authorizations,
                   authzIdx, cert_store, pending, cur, current_retry,
                   retry_delay, sleeps, kp, cert_chain, certIdx, certWaits,
                   log, atStart, proxy>>

\* what one iteration of the write loop puts in cert.pem and key.pem
CertContent(chain, key) == [cert |-> chain, key |-> key]

\* start(), lines 381-395: one iteration of the certificate write loop;
\* done counts the file operations that succeeded (create cert.pem,
\* create key.pem, write cert.pem, write key.pem)
WriteCert ==
    /\ pc = "write_certs"
    /\ LET non_excluded_hosts == NonExcludedHosts(hosts, excluded_hosts)
           host == non_excluded_hosts[certIdx]
           content == CertContent(cert_chain, kp)
       IN \E done \in 0..4 :
            /\ certPem' = IF done = 0 THEN certPem
                          ELSE (host :> (IF done >= 3 THEN content.cert
                                         ELSE EmptyFile)) @@ certPem
            /\ keyPem' = IF done <= 1 THEN keyPem
                         ELSE (host :> (IF done = 4 THEN content.key
                                        ELSE EmptyFile)) @@ keyPem
            /\ log' = IF done = 0 THEN log
                      ELSE Append(log, <<"write_cert", host>>)
            /\ IF done < 4
               THEN /\ Panic
                    /\ UNCHANGED certIdx
               ELSE /\ certIdx' = certIdx + 1
                    /\ pc' = IF certIdx' > Len(non_excluded_hosts)
                             THEN "done" ELSE "write_certs"
    /\ UNCHANGED <<hosts, run, dirs, credFile, challengeFiles, orderRef,
                   registered, orders, excluded_hosts, account, identifiers,
                   order, status, authorizations, authzIdx, cert_store,
                   pending, cur, current_retry, retry_delay, sleeps, kp,
                   cert_chain, certWaits, atStart, proxy>>

\* the process is started again over the same data directory
Restart ==
    /\ pc \in Terminal
    /\ run < MaxRuns
    /\ run' = run + 1
    /\ pc' = "start"
    /\ excluded_hosts' = <<>>
    /\ account' = 0
    /\ identifiers' = <<>>
    /\ order' = 0
    /\ status' = "none"
    /\ authorizations' = <<>>
    /\ authzIdx' = 0
    /\ cert_store' = EmptyMap
    /\ pending' = {}
    /\ cur' = "none"
    /\ current_retry' = 0
    /\ retry_delay' = 1
    /\ sleeps' = <<>>
    /\ kp' = <<"none">>
    /\ cert_chain' = <<"none">>
    /\ certIdx' = 0
    /\ certWaits' = 0
    /\ log' = <<>>
    /\ atStart' = Files
    /\ challenge_store' = EmptyMap
    /\ request' = NoRequest
    /\ response' = NoResponse
    /\ UNCHANGED <<hosts, dirs, credFile, challengeFiles, orderRef, certPem,
                   keyPem, registered, orders>>

\* ------------------------------------------------ plaintext proxy (HttpLB)
\* a path is the list of its segments, as path.split('/') yields them:
\* "/ping" is <<"", "ping">>
PingPath == <<"", "ping">>
ChallengePath(token) == <<"", ".well-known", "acme-challenge", token>>

\* the segments that begin with the characters "acme-challenge"
AcmePrefixed == {"acme-challenge", "acme-challenge-old"}

\* current_uri.path().starts_with("/.well-known/acme-challenge"), line 55
StartsWithChallenge(path) ==
    /\ Len(path) >= 3
    /\ path[1] = ""
    /\ path[2] = ".well-known"
    /\ path[3] \in AcmePrefixed

\* current_uri.path().split('/').last().unwrap(), line 68
TokenFromUrl(path) == path[Len(path)]

\* the errors request_filter returns, lines 38, 60, 72
HttpError(code) == [result |-> "Err", status |-> code]

\* the 200 text/plain answers of lines 43-50 and 75-83
PlainText(body) ==
    [result |-> "Ok(true)", status |-> 200, content_type |-> "text/plain",
     body |-> body]

\* the redirect of lines 87-107
RedirectToHttps(host, path, query) ==
    [result |-> "Ok(true)", status |-> 308, content_type |-> "text/plain",
     body |-> "",
     location |-> [scheme |-> "https", authority |-> host, path |-> path,
                   query |-> query]]

\* variant: the token of the path is not compared
RequestFilterAnyToken(store, host, path, query) ==
    IF host = "" THEN HttpError(400)
    ELSE IF path = PingPath THEN PlainText("pong")
    ELSE IF StartsWithChallenge(path)
    THEN IF host \notin DOMAIN store THEN HttpError(404)
         ELSE PlainText(store[host][2])
    ELSE RedirectToHttps(host, path, query)

\* variant: the redirect drops the query
RequestFilterNoQuery(store, host, path, query) ==
    IF host = "" THEN HttpError(400)
    ELSE IF path = PingPath THEN PlainText("pong")
    ELSE IF StartsWithChallenge(path)
    THEN IF host \notin DOMAIN store THEN HttpError(404)
         ELSE IF store[host][1] # TokenFromUrl(path) THEN HttpError(404)
         ELSE PlainText(store[host][2])
    ELSE RedirectToHttps(host, path, "none")

\* HttpLB::request_filter, lines 27-108, host being what get_host returns
\* ("" when the request carries no host)
RequestFilter(store, host, path, query) ==
    IF host = "" THEN HttpError(400)
    ELSE IF path = PingPath THEN PlainText("pong")
    ELSE IF StartsWithChallenge(path)
    THEN IF host \notin DOMAIN store THEN HttpError(404)
         ELSE IF store[host][1] # TokenFromUrl(path) THEN HttpError(404)
         ELSE PlainText(store[host][2])
    ELSE RedirectToHttps(host, path, query)

\* the requests and challenge stores the proxy is exercised with
RequestHosts == HostNames \cup {""}
Tokens == {"t1", "t2"}
Proofs == {"p1", "p2"}
Queries == {"none", "x=1"}
Paths ==
    {PingPath, <<"", "ping", "">>, <<"", "foo">>, <<"", "">>,
     <<"", ".well-known", "acme-challenge">>,
     <<"", ".well-known", "acme-challenge", "">>,
     <<"", ".well-known", "acme-challenge", "x", "t1">>,
     <<"", ".well-known", "acme-challenge-old", "t1">>,
     <<"", ".well-known", "other", "t1">>}
    \cup {ChallengePath(t) : t \in Tokens}
Stores ==
    UNION {[hs -> Tokens \X Proofs] : hs \in SUBSET HostNames}

\* one plaintext request handled by request_filter
request_filter ==
    /\ \E host \in RequestHosts, path \in Paths, query \in Queries :
         /\ request' = [host |-> host, path |-> path, query |-> query]
         /\ response' = RequestFilter(challenge_store, host, path, query)
    /\ UNCHANGED <<hosts, pc, run, dirs, credFile, challengeFiles, orderRef,
                   certPem, keyPem, registered, orders, excluded_hosts,
                   account, identifiers, order, status, authorizations,
                   authzIdx, cert_store, pending, cur, current_retry,
                   retry_delay, sleeps, kp, cert_chain, certIdx, certWaits,
                   log, atStart, challenge_store>>

\* the proxy alone, with any content of its challenge store
ProxyInit ==
    /\ hosts = <<>>
    /\ pc = "start"
    /\ run = 1
    /\ dirs = FALSE
    /\ credFile = NoFile
    /\ challengeFiles = EmptyMap
    /\ orderRef = NoFile
    /\ certPem = EmptyMap
    /\ keyPem = EmptyMap
    /\ registered = 0
    /\ orders = 0
    /\ excluded_hosts = <<>>
    /\ account = 0
    /\ identifiers = <<>>
    /\ order = 0
    /\ status = "none"
    /\ authorizations = <<>>
    /\ authzIdx = 0
    /\ cert_store = EmptyMap
    /\ pending = {}
    /\ cur = "none"
    /\ current_retry = 0
    /\ retry_delay = 1
    /\ sleeps = <<>>
    /\ kp = <<"none">>
    /\ cert_chain = <<"none">>
    /\ certIdx = 0
    /\ certWaits = 0
    /\ log = <<>>
    /\ atStart = Files
    /\ challenge_store \in Stores
    /\ request = NoRequest
    /\ response = NoResponse

ProxyNext == request_filter

ProxySpec == ProxyInit /\ [][ProxyNext]_vars

\* create_order called on its own: any host list, any excluded list, and
\* the credential file absent, unreadable or holding account 1
OrderInit ==
    /\ hosts \in HostLists
    /\ excluded_hosts \in HostLists
    /\ credFile \in {NoFile, EmptyFile, Credentials(1)}
    /\ registered = IF credFile = NoFile THEN 0 ELSE 1
    /\ pc = "create_account"
    /\ run = 1
    /\ dirs = TRUE
    /\ challengeFiles = EmptyMap
    /\ orderRef = NoFile
    /\ certPem = EmptyMap
    /\ keyPem = EmptyMap
    /\ orders = 0
    /\ account = 0
    /\ identifiers = <<>>
    /\ order = 0
    /\ status = "none"
    /\ authorizations = <<>>
    /\ authzIdx = 0
    /\ cert_store = EmptyMap
    /\ pending = {}
    /\ cur = "none"
    /\ current_retry = 0
    /\ retry_delay = 1
    /\ sleeps = <<>>
    /\ kp = <<"none">>
    /\ cert_chain = <<"none">>
    /\ certIdx = 0
    /\ certWaits = 0
    /\ log = <<>>
    /\ atStart = Files
    /\ challenge_store = EmptyMap
    /\ request = NoRequest
    /\ response = NoResponse

OrderNext ==
    \/ create_account
    \/ create_order

OrderSpec == OrderInit /\ [][OrderNext]_vars

Next ==
    \/ StartRun
    \/ create_account
    \/ create_order
    \/ FetchAuthorizations
    \/ DeriveChallenge
    \/ DeriveReturn
    \/ WriteOrderRef
    \/ WriteChallenge
    \/ SetChallengeReady
    \/ PollReady
    \/ Finalize
    \/ DownloadCert
    \/ SleepCert
    \/ WriteCert
    \/ Restart

Spec == Init /\ [][Next]_vars

\* the steps of a run: everything but the start of the next process
RunStep ==
    \/ StartRun
    \/ create_account
    \/ create_order
    \/ FetchAuthorizations
    \/ DeriveChallenge
    \/ DeriveReturn
    \/ WriteOrderRef
    \/ WriteChallenge
    \/ SetChallengeReady
    \/ PollReady
    \/ Finalize
    \/ DownloadCert
    \/ SleepCert
    \/ WriteCert

\* the data directories a run may find: no, an unreadable or a good
\* credential file, and, for any set of hosts, a challenge file that an
\* earlier run of account 1 wrote or left empty
FoundChallengeFiles ==
    UNION {[hs -> {EmptyFile} \cup
                     {ChallengeRecord(StoreEntry(1, h, 1)) : h \in hs}] :
              hs \in SUBSET HostNames}

\* one run over any such directory
LiveInit ==
    /\ hosts \in HostLists
    /\ credFile \in {NoFile, EmptyFile, Credentials(1)}
    /\ challengeFiles \in FoundChallengeFiles
    /\ DOMAIN challengeFiles # {} => credFile = Credentials(1)
    /\ registered = IF credFile = NoFile THEN 0 ELSE 1
    /\ orders = IF DOMAIN challengeFiles = {} THEN 0 ELSE 1
    /\ orderRef = IF orders = 0 THEN NoFile ELSE OrderUrl(1)
    /\ dirs = (credFile # NoFile)
    /\ pc = "start"
    /\ run = 1
    /\ certPem = EmptyMap
    /\ keyPem = EmptyMap
    /\ excluded_hosts = <<>>
    /\ account = 0
    /\ identifiers = <<>>
    /\ order = 0
    /\ status = "none"
    /\ authorizations = <<>>
    /\ authzIdx = 0
    /\ cert_store = EmptyMap
    /\ pending = {}
    /\ cur = "none"
    /\ current_retry = 0
    /\ retry_delay = 1
    /\ sleeps = <<>>
    /\ kp = <<"none">>
    /\ cert_chain = <<"none">>
    /\ certIdx = 0
    /\ certWaits = 0
    /\ log = <<>>
    /\ atStart = Files
    /\ challenge_store = EmptyMap
    /\ request = NoRequest
    /\ response = NoResponse

\* the background task, once started, keeps being executed: its awaits
\* complete and its sleeps end
LiveSpec == LiveInit /\ [][RunStep]_vars /\ WF_vars(RunStep)

\* ------------------------------------------------------------ properties
\* the authority calls and file writes of the run, by kind
Events(kind) == {i \in 1..Len(log) : log[i][1] = kind}
\* the hosts that had a challenge record when the run began
RecordedAtStart == DOMAIN atStart.challengeFiles

\* C1: the identifiers of the order a run submits are exactly the
\* configured hosts minus the hosts that had a persisted challenge record
\* when the run began.
C1_ExclusionCorrectness ==
    \A i \in Events("new_order") :
        Range(log[i][2]) = Range(hosts) \ RecordedAtStart

C1_Witness ==
    /\ Events("new_order") # {}
    /\ Range(hosts) \cap RecordedAtStart # {}
    /\ Range(identifiers) # {}

\* C2: a run that finds a challenge record for every configured host ends
\* without any call to the authority and leaves the credential file, the
\* order reference, the challenge records and the certificate files as they
\* were.
C2_ShortCircuit ==
    Range(hosts) \subseteq RecordedAtStart =>
        /\ log = <<>>
        /\ Files = atStart
        /\ pc \in {"start", "all_excluded", "panic"}

C2_Witness ==
    /\ pc = "all_excluded"
    /\ Cardinality(Range(hosts)) = 2
    /\ Range(hosts) \subseteq RecordedAtStart

\* C3 (as amended): a run that finds a credential file sends no new-account
\* request and its session uses the stored credentials; a new-account
\* request is sent only by a run that found no credential file; and once a
\* credential file exists no further registration succeeds.
C3_NoReRegistration ==
    /\ [](HasCredentials(atStart.credFile) =>
             /\ Events("new_account") = {}
             /\ account # 0 => atStart.credFile = Credentials(account))
    /\ [][credFile # NoFile => registered' = registered]_vars

C3_Witness ==
    /\ run > 1
    /\ atStart.credFile = Credentials(1)
    /\ account = 1
    /\ Events("fetch_account") # {}

\* C3 (as stated): the same, and at most one account registration succeeds
\* per deployment.
C3_AtMostOneRegistration ==
    /\ HasCredentials(atStart.credFile) =>
          /\ Events("new_account") = {}
          /\ account # 0 => atStart.credFile = Credentials(account)
    /\ registered <= 1

\* C4: a run makes at most 10 order refreshes, the delay slept before the
\* n-th refresh is 2^(n-1), and a run whose order is still not Ready after
\* the 10th refresh stops there with "Max retries reached", having slept
\* 1, 2, 4, ..., 512.
C4_BackoffSchedule ==
    /\ [](/\ Len(sleeps) <= 10
          /\ Cardinality(Events("refresh")) = Len(sleeps)
          /\ \A n \in 1..Len(sleeps) : sleeps[n] = 2^(n-1)
          /\ pc = "max_retries" =>
                sleeps = <<1, 2, 4, 8, 16, 32, 64, 128, 256, 512>>)
    /\ [][(pc = "poll" /\ status # "Ready" /\ Len(sleeps) = 10)
             => pc' = "max_retries"]_vars

C4_Witness ==
    /\ pc = "max_retries"
    /\ Len(sleeps) = 10

\* the host of every write_challenge or ready event of the run
HostOf(i) == log[i][2]

\* C5 (as amended): every ready signal of a run is preceded by the write of
\* that host's challenge record; once the readiness loop is entered every
\* record written in the run has had its ready signal; and no ready signal
\* follows an order refresh.
C5_ReadyAfterOwnRecord ==
    /\ \A j \in Events("ready") :
          \E i \in Events("write_challenge") : i < j /\ HostOf(i) = HostOf(j)
    /\ (pc = "poll" \/ Events("refresh") # {}) =>
          \A i \in Events("write_challenge") :
              \E j \in Events("ready") : HostOf(j) = HostOf(i)
    /\ \A j \in Events("ready") : \A k \in Events("refresh") : j < k

C5_Witness ==
    /\ Cardinality(Events("ready")) = 2
    /\ Events("refresh") # {}

\* C5 (as stated): all challenge records of the run are written before the
\* first ready signal, every written record gets a ready signal before the
\* readiness loop, and all ready signals precede the first refresh.
C5_AllRecordsBeforeFirstReady ==
    /\ \A i \in Events("write_challenge") : \A j \in Events("ready") : i < j
    /\ (pc = "poll" \/ Events("refresh") # {}) =>
          \A i \in Events("write_challenge") :
              \E j \in Events("ready") : HostOf(j) = HostOf(i)
    /\ \A j \in Events("ready") : \A k \in Events("refresh") : j < k

\* the authorizations the for loop has passed
Examined == {authorizations[i] : i \in 1..(authzIdx - 1)}

\* C6: while challenges are derived from an order's authorizations, the
\* store holds an entry for exactly the hosts whose examined authorization
\* was Valid (none for a Pending one), built from that authorization's
\* HTTP-01 challenge (token, challenge URL, key authorization of the token
\* under the session's account); an authorization with any other status
\* makes the step return its failure at once, and the step never gets past
\* such an authorization.
C6_DeriveByStatus ==
    /\ [](pc = "derive" =>
            /\ \A a \in Examined : a.status \in {"Pending", "Valid"}
            /\ DOMAIN cert_store =
                  {a.identifier : a \in {x \in Examined : x.status = "Valid"}}
            /\ \A h \in DOMAIN cert_store :
                  cert_store[h] = <<ChallengeToken(order, h),
                                    ChallengeUrl(order, h),
                                    <<ChallengeToken(order, h), account>> >>)
    /\ [][(/\ pc = "derive"
           /\ authzIdx <= Len(authorizations)
           /\ authorizations[authzIdx].status \notin {"Pending", "Valid"})
             => (pc' = "no_order" /\ Files' = Files /\ log' = log)]_vars

C6_Witness ==
    /\ pc = "derive"
    /\ authzIdx > Len(authorizations)
    /\ \E a \in Examined : a.status = "Pending"
    /\ \E a \in Examined : a.status = "Valid"

\* C7: no run ever panics: every failure of the authority or of a file
\* write ends the run in one of its logged terminal states.
C7_NeverPanics == pc # "panic"

\* the run was told by the authority that finalization is rejected or that
\* the certificate download failed
FinalizeRejected == \E i \in Events("finalize") : log[i][3] = FALSE
DownloadFailed == \E i \in Events("certificate") : log[i][3] = "error"

\* C8: a run whose finalization is rejected or whose certificate download
\* returns an error ends there and writes no cert.pem and no key.pem.
C8_NoCertificateOnFailure ==
    (FinalizeRejected \/ DownloadFailed) =>
        /\ pc \in {"finalize_failed", "download_error"}
        /\ Events("write_cert") = {}
        /\ certPem = atStart.certPem
        /\ keyPem = atStart.keyPem

C8_Witness ==
    /\ pc = "download_error"
    /\ DownloadFailed
    /\ Cardinality(Range(identifiers)) = 2

\* the hosts of the run that had no challenge record when it began
NonExcluded == Range(hosts) \ RecordedAtStart

\* the content of host h's file in a per-host file map
FileOf(map, h) == IF h \in DOMAIN map THEN map[h] ELSE NoFile

\* C9: a run that completes has written cert.pem and key.pem for exactly
\* its non-excluded hosts, each of them holds the downloaded chain and the
\* one key pair generated by the run, and the files of every other host are
\* as the run found them.
C9_SharedCertificate ==
    pc = "done" =>
        /\ {log[i][2] : i \in Events("write_cert")} = NonExcluded
        /\ \A h \in NonExcluded :
              /\ FileOf(certPem, h) = CertChain(order)
              /\ FileOf(keyPem, h) = kp
              /\ kp # <<"none">>
        /\ \A h \in HostNames \ NonExcluded :
              /\ FileOf(certPem, h) = FileOf(atStart.certPem, h)
              /\ FileOf(keyPem, h) = FileOf(atStart.keyPem, h)

C9_Witness ==
    /\ pc = "done"
    /\ Cardinality(NonExcluded) = 2

\* C10: a challenge record, once on disk, stays on disk, and no order of a
\* later run names a host that had a record when that run began.
C10_ExcludedForever ==
    /\ [][DOMAIN challengeFiles \subseteq DOMAIN challengeFiles']_vars
    /\ [](\A i \in Events("new_order") :
             Range(log[i][2]) \cap RecordedAtStart = {})

C10_Witness ==
    /\ run > 1
    /\ RecordedAtStart # {}
    /\ Events("new_order") # {}
    /\ atStart.challengeFiles # challengeFiles

\* the request was for a path under /.well-known/acme-challenge/
UnderChallengeDir ==
    /\ Len(request.path) >= 4
    /\ request.path[1] = ""
    /\ request.path[2] = ".well-known"
    /\ request.path[3] = "acme-challenge"

\* the store holds an entry for the request's host whose token is the last
\* segment of the request's path
TokenMatches ==
    /\ request.host \in DOMAIN challenge_store
    /\ challenge_store[request.host][1] = request.path[Len(request.path)]

\* C11: a request on a host for a path under /.well-known/acme-challenge/
\* is answered 200, text/plain, with the host's stored proof if the store
\* holds an entry for the host whose token is the trailing token of the
\* path, and 404 in every other case.
C11_ChallengeResponder ==
    (response # NoResponse /\ request.host # "" /\ UnderChallengeDir) =>
        IF TokenMatches
        THEN /\ response.status = 200
             /\ response.content_type = "text/plain"
             /\ response.body = challenge_store[request.host][2]
        ELSE response.status = 404

C11_Witness ==
    /\ response # NoResponse
    /\ request.host # ""
    /\ UnderChallengeDir
    /\ TokenMatches
    /\ response.status = 200

\* C12: when the ready signal for a host's challenge is sent, a request on
\* that host for /.well-known/acme-challenge/<token of the host's record>
\* is answered 200 with the record's proof.
C12_VisibleWhenReady ==
    \A j \in Events("ready") :
        LET h == HostOf(j)
        IN RequestFilter(challenge_store, h,
                         ChallengePath(cert_store[h][1]), "none")
              = PlainText(cert_store[h][3])

\* the request was for /ping or for a path request_filter treats as a
\* challenge path
PingOrChallenge ==
    request.path = PingPath \/ StartsWithChallenge(request.path)

C14_PingPong ==
    (response # NoResponse /\ request.path = PingPath) =>
        /\ response.status = 200
        /\ response.body = "pong"

PastOrderRef ==
    {"no_orders", "write_challenge", "set_ready", "poll", "max_retries",
     "finalize", "finalize_failed", "download", "cert_sleep",
     "download_error", "write_certs", "done"}

\* C16 (as amended): a run whose challenge derivation succeeds writes the
\* order reference whether or not a record was produced; when none was
\* produced it stops right after that write, before any challenge record
\* is written and before any ready signal.
C16_ReferenceThenStop ==
    /\ [](pc \in PastOrderRef =>
             /\ orderRef = OrderUrl(order)
             /\ Events("write_order_ref") # {})
    /\ [](pc = "no_orders" =>
             /\ DOMAIN cert_store = {}
             /\ Events("write_challenge") = {}
             /\ Events("ready") = {}
             /\ challengeFiles = atStart.challengeFiles)
    /\ [][(pc = "write_order_ref" /\ DOMAIN cert_store = {})
             => pc' \in {"no_orders", "panic"}]_vars

C16_Witness ==
    /\ pc = "no_orders"
    /\ orderRef = OrderUrl(order)
    /\ Cardinality(Range(identifiers)) = 2

\* C16 (as stated): the order reference is written only in a run that
\* produced at least one challenge record.
C16_ReferenceOnlyWithRecords ==
    Events("write_order_ref") # {} => DOMAIN cert_store # {}

\* the order has an authorization whose status is neither Pending nor Valid
UnexpectedStatus ==
    \E i \in 1..Len(authorizations) :
        authorizations[i].status \notin {"Pending", "Valid"}

\* C17: a run whose order has an authorization with a status other than
\* Pending or Valid stops in the derivation step ("No order to check", or a
\* panic on an earlier authorization) and sends no ready signal and writes
\* no challenge record, also for the Valid authorizations it had examined.
C17_AbortBeforeReady ==
    /\ [](UnexpectedStatus => Events("ready") = {})
    /\ [](pc = "no_order" =>
             Events("ready") = {} /\ Events("write_challenge") = {})
    /\ [][(pc = "derive" /\ UnexpectedStatus) =>
             /\ pc' \in {"derive", "no_order", "panic"}
             /\ log' = log
             /\ challengeFiles' = challengeFiles]_vars

C17_Witness ==
    /\ pc = "no_order"
    /\ DOMAIN cert_store # {}
    /\ Events("authorizations") # {}

\* the readiness loop was left with its retries used up
Exhausted == current_retry >= 10 /\ status # "Ready" /\ pc # "poll"

\* C18: a run whose readiness loop uses up its retries stops with "Max
\* retries reached": no finalize request, no certificate or key file, no
\* other file beyond the order reference and the challenge records of the
\* run, which stay on disk; a recorded host is in no later order.
C18_ExhaustedLeavesRecords ==
    /\ [](Exhausted =>
             /\ pc = "max_retries"
             /\ Events("finalize") = {}
             /\ Events("write_cert") = {}
             /\ certPem = atStart.certPem
             /\ keyPem = atStart.keyPem
             /\ DOMAIN challengeFiles = RecordedAtStart \cup DOMAIN cert_store
             /\ \A h \in DOMAIN cert_store :
                   challengeFiles[h] = <<cert_store[h][2], cert_store[h][3],
                                         cert_store[h][1]>>
             /\ \A h \in RecordedAtStart :
                   challengeFiles[h] = atStart.challengeFiles[h])
    /\ [][DOMAIN challengeFiles \subseteq DOMAIN challengeFiles']_vars
    /\ [](\A i \in Events("new_order") :
             \A h \in RecordedAtStart : ~Contains(log[i][2], h))

C18_Witness ==
    /\ pc = "max_retries"
    /\ Cardinality(Events("write_challenge")) = 2
    /\ run > 1

\* C19: a finalize request is sent only for an order last seen Ready; the
\* loop is left for finalization as soon as the order is seen Ready, without
\* a further sleep or refresh (none at all when the new order is Ready).
C19_FinalizeOnlyWhenReady ==
    /\ [](Events("finalize") # {} => status = "Ready")
    /\ [](pc \in {"finalize", "download", "cert_sleep", "write_certs", "done"}
             => status = "Ready")
    /\ [][(pc = "poll" /\ status = "Ready") =>
             /\ pc' = "finalize"
             /\ sleeps' = sleeps
             /\ log' = log]_vars
    /\ [][(pc = "poll" /\ pc' = "poll") => status # "Ready"]_vars

C19_Witness ==
    /\ Events("finalize") # {}
    /\ sleeps = <<>>
    /\ status = "Ready"

\* the download loop of lines 362-377
DownloadLoop == {"download", "cert_sleep"}

\* C20 (as amended): every run eventually reaches a terminal state or the
\* certificate download loop, whatever the authority answers, also when it
\* never reports the order Ready; the download loop is left, for a terminal
\* state, when the authority returns the chain or an error.
C20_TerminatesUnlessWaiting ==
    (pc \notin Terminal /\ pc \notin DownloadLoop)
        ~> (pc \in Terminal \/ pc \in DownloadLoop)

C20_Witness ==
    /\ pc = "done"
    /\ certWaits > 0
    /\ Len(sleeps) > 0

\* C20 (as stated): every run eventually reaches a terminal state, also
\* when the authority never returns the certificate.
C20_EveryRunTerminates ==
    (pc \notin Terminal) ~> (pc \in Terminal)

\* a list that names no element twice
NoDuplicates(list) ==
    \A i, j \in 1..Len(list) : list[i] = list[j] => i = j

\* C21: the identifier list submitted in an order names each hostname at
\* most once, for every configured host list, also one that names a host
\* more than once.
C21_UniqueIdentifiers ==
    \A i \in Events("new_order") : NoDuplicates(log[i][2])

\* the hosts whose cert.pem in the given files holds a certificate chain
Certified(files) == {h \in DOMAIN files.certPem : files.certPem[h] # EmptyFile}

\* C22: after any sequence of runs and whatever the authority answers,
\* every host that has a persisted certificate also has a persisted
\* challenge record, and a host that had a certificate when a run began is
\* in no order of that run.
C22_CertifiedHostsRecorded ==
    /\ Certified(Files) \subseteq DOMAIN challengeFiles
    /\ \A i \in Events("new_order") :
          \A h \in Certified(atStart) : ~Contains(log[i][2], h)

\* the challenge URL a ready signal was sent for
UrlOf(j) == log[j][3]

\* C23: the ready signal for a host's challenge is sent only after that
\* host's challenge record was written and flushed, and only for a
\* challenge that has a persisted record: the record of that host is on
\* disk, complete, and holds the URL the signal names.
C23_ReadyOnlyForPersisted ==
    \A j \in Events("ready") :
        /\ \E i \in Events("write_challenge") : i < j /\ HostOf(i) = HostOf(j)
        /\ HostOf(j) \in DOMAIN challengeFiles
        /\ challengeFiles[HostOf(j)] # EmptyFile
        /\ challengeFiles[HostOf(j)][1] = UrlOf(j)
        /\ UrlOf(j) = cert_store[HostOf(j)][2]

C23_Witness ==
    /\ Events("ready") # {}
    /\ pending # {}
    /\ pc = "panic"
    /\ \E h \in pending : h \in DOMAIN challengeFiles

\* the run ended because the authority rejected the new order
OrderRejected ==
    pc = "panic" /\ log # <<>> /\ log[Len(log)][1] = "new_order"

\* the run ended because an authorization had an unexpected status
AuthorizationRejected ==
    pc = "no_order" /\ Events("authorizations") # {}

\* C24: a run that ends because the order is rejected or because an
\* authorization has an unexpected status leaves the challenge records,
\* the order reference and the certificate and key files as it found them
\* (only the credential file may be new); the step that meets the
\* unexpected status ends the run without touching a file; the next run
\* finds these files, so that the hosts of this run's order are the hosts
\* the next run does not exclude and orders again.
C24_FailureLeavesFiles ==
    /\ []((OrderRejected \/ AuthorizationRejected) =>
             /\ challengeFiles = atStart.challengeFiles
             /\ orderRef = atStart.orderRef
             /\ certPem = atStart.certPem
             /\ keyPem = atStart.keyPem
             /\ HasCredentials(atStart.credFile) => credFile = atStart.credFile
             /\ Events("new_order") # {}
             /\ Range(identifiers) = Range(hosts) \ DOMAIN challengeFiles
             /\ identifiers =
                   Identifiers(hosts, ExcludedHosts(hosts, challengeFiles)))
    /\ [][(/\ pc = "derive"
           /\ authzIdx <= Len(authorizations)
           /\ authorizations[authzIdx].status \notin {"Pending", "Valid"})
             => (pc' \in Terminal /\ Files' = Files)]_vars
    /\ [][((OrderRejected \/ AuthorizationRejected) /\ run' # run)
             => (atStart' = Files /\ hosts' = hosts /\ pc' = "start")]_vars

C24_Witness ==
    /\ AuthorizationRejected
    /\ run > 1
    /\ RecordedAtStart # {}
    /\ orders = 2
====
